---- MODULE Spec2Model ----
(***************************************************************************)
(* A model of the mcp-chrome tool bridge.                                  *)
(*                                                                         *)
(*   - the native-server side: the MCP request handlers of                 *)
(*     register-tools.ts (ListTools, handleToolCall) on top of the request *)
(*     correlator (sendRequestToExtensionAndWait, whose source is not in   *)
(*     the tree and is modelled from spec.md sections 3, 4.1 and 4.2);     *)
(*   - the extension side: background/native-host.ts;                      *)
(*   - the host process: the entry script of the native server.            *)
(*                                                                         *)
(* JavaScript values are kept apart by tags: Undefined stands for the      *)
(* value undefined (an absent field), never for a string.                  *)
(***************************************************************************)
EXTENDS Integers, Sequences, FiniteSets, TLC

\* ------------------------------------------------------------------ bounds
MaxReq == 2          \* requests the protocol server issues
MaxPorts == 2        \* native ports the extension opens
MaxRequests == 2     \* inbound frames that carry a requestId
MaxOps == 2          \* storage operations in flight
MaxRejections == 2   \* unhandled rejections delivered to the host process

\* --------------------------------------------------------- program constants
LIST_TOOLS_TIMEOUT_MS == 30000
CALL_TOOL_TIMEOUT_MS == 30000

Undefined == "<undefined>"
TOOL_EXECUTED == "Tool executed successfully"
TOOL_EXECUTION_FAILED == "Tool execution failed"

ToolNames == {"chrome_navigate"}
ToolArgs == {"{}"}
ToolData == {"result"}
ToolErrors == {"boom"}

\* ------------------------------------------------------------- JS values
ErrorObject(m) == [t |-> "Error", v |-> m]
StringValue(s) == [t |-> "string", v |-> s]
UndefinedValue == [t |-> "undefined", v |-> Undefined]
NoValue == [t |-> "none", v |-> Undefined]

\* The value a field read yields: a string, or undefined when the field is absent.
FieldValue(s) == IF s = Undefined THEN UndefinedValue ELSE StringValue(s)

\* error.message: the message of an Error, undefined on a string, and a
\* TypeError when error is null or undefined.
HasProperties(e) == e.t \in {"Error", "string"}
MessageOf(e) == IF e.t = "Error" THEN e.v ELSE Undefined
TypeErrorValue == ErrorObject("Cannot read properties of undefined (reading 'message')")

\* --------------------------------------------------------------- frames
NoPayload == [status |-> Undefined, message |-> Undefined, data |-> Undefined, error |-> Undefined]

\* native-host.ts: the payload of a success response and of an error response.
SuccessPayload(result) ==
    [status |-> "success", message |-> TOOL_EXECUTED, data |-> result, error |-> Undefined]
ErrorPayload(err) ==
    [status |-> "error", message |-> TOOL_EXECUTION_FAILED, data |-> Undefined, error |-> err]

ResponseFrame(requestId, payload) == [responseToRequestId |-> requestId, payload |-> payload]

\* The response frames the channel may deliver to the server side: the two
\* shapes the extension builds, and an error reply that reports no error text.
ResponsePayloads ==
    {SuccessPayload(d) : d \in ToolData}
        \cup {ErrorPayload(e) : e \in ToolErrors}
        \cup {ErrorPayload(Undefined)}
InboundFrames == {ResponseFrame(id, p) : id \in 1..(MaxReq + 1), p \in ResponsePayloads}

\* JSON.stringify of a reply payload, and the template string of the catch branch.
JSONstringify(p) == <<"{", p.status, p.message, p.data, p.error, "}">>
ErrorText(m) == <<"Error calling tool: ", m>>

VARIABLES
    connState,          \* server side: "connected" | "disconnected"
    pendingRequests,    \* Pending-Request Table: request id -> [type, timeoutMs]
    timers,             \* request ids whose timeout timer is armed
    nextRequestId,      \* request identifier generator
    exchange,           \* the promise of each request: [state, payload, error]
    calls,              \* the handler activations of register-tools.ts, by request id
    sentFrames,         \* request frames handed to the transport
    lastInbound,        \* history: responseToRequestId of the last frame delivered
    inboundSeq,         \* history: alternates with every frame delivered
    settleCount,        \* history: how often resolve/reject was invoked per id
    firstEvent          \* history: the first event that occurred for each id

serverVars == <<connState, pendingRequests, timers, nextRequestId, exchange, calls,
                sentFrames, lastInbound, inboundSeq, settleCount, firstEvent>>

VARIABLES
    nativePort,           \* the module's port: 0 (null) or the id of a port
    portCount,            \* ports created by connectNative so far
    outbox,               \* per port, the frames posted to it, in order
    currentServerStatus,  \* [isRunning, port]; lastUpdated is not modelled
    storage,              \* chrome.storage.local[SERVER_STATUS]: [present, status]
    storageQueue,         \* storage operations issued and not yet completed (FIFO)
    requests,             \* inbound frames with a requestId, and their handlers
    requestCount,         \* how many of them have arrived
    reply,                \* what the latest step passed to sendResponse, if anything
    logged,               \* what the latest step wrote with console.error / warn
    broadcast,            \* the SERVER_STATUS_CHANGED the latest step sent, if any
    notified              \* history: what the start/stop frames so far announce

extVars == <<nativePort, portCount, outbox, currentServerStatus, storage, storageQueue,
             requests, requestCount, reply, logged, broadcast, notified>>

VARIABLES
    procState,            \* host process: "starting" | "running" | "exited"
    exitCode,             \* the exit code, once procState = "exited"
    logFile,              \* native-server.log: the lines written, in order
    logWrites,            \* the lines the latest step tried to write, in order
    rejections            \* unhandled rejections delivered so far

hostVars == <<procState, exitCode, logFile, logWrites, rejections>>

vars == <<serverVars, extVars, hostVars>>

RequestIds == 1..MaxReq

\* ------------------------------------------------------------ exchanges
Unissued == [state |-> "unissued", payload |-> NoPayload, error |-> NoValue]
Pending == [state |-> "pending", payload |-> NoPayload, error |-> NoValue]
Resolved(p) == [state |-> "resolved", payload |-> p, error |-> NoValue]
Rejected(e) == [state |-> "rejected", payload |-> NoPayload, error |-> e]

TimeoutError == ErrorObject("Request timed out")
ChannelClosedError == ErrorObject("Channel closed")
NotConnectedError == ErrorObject("Not connected")

NoEvent == [kind |-> "none", outcome |-> Unissued]
Event(kind, outcome) == [kind |-> kind, outcome |-> outcome]

\* A promise settles once: resolve/reject on a settled promise is a no-op.
Settle(ex, id, outcome) ==
    IF ex[id].state = "pending" THEN [ex EXCEPT ![id] = outcome] ELSE ex

\* The first event for an issued identifier is remembered.
Record(fe, id, ev) ==
    IF exchange[id].state # "unissued" /\ fe[id].kind = "none"
    THEN [fe EXCEPT ![id] = ev] ELSE fe

NoResult == [content |-> <<>>, isError |-> FALSE, tools |-> Undefined, thrown |-> NoValue]
NoCall == [kind |-> "none", pc |-> "idle", result |-> NoResult]

ServerInit ==
    /\ connState = "connected"
    /\ pendingRequests = <<>>
    /\ timers = {}
    /\ nextRequestId = 1
    /\ exchange = [id \in RequestIds |-> Unissued]
    /\ calls = [id \in RequestIds |-> NoCall]
    /\ sentFrames = {}
    /\ lastInbound = 0
    /\ inboundSeq = 0
    /\ settleCount = [id \in RequestIds |-> 0]
    /\ firstEvent = [id \in RequestIds |-> NoEvent]

\* ------------------------------------------------- Request Correlator
\* Remove one identifier from the Pending-Request Table.
Without(table, id) == [i \in (DOMAIN table) \ {id} |-> table[i]]

RequestFrame(id, messageType, messagePayload) ==
    [type |-> messageType, requestId |-> id, payload |-> messagePayload]

\* send(payload, type, timeoutMs): register the Pending Exchange, start its
\* timer and submit the frame; a send on a closed channel fails at once with a
\* not-connected error and leaves nothing in the table.
sendRequestToExtensionAndWait(id, messagePayload, messageType, timeoutMs) ==
    /\ timers' = timers \cup {id}
    /\ IF connState = "connected"
       THEN /\ pendingRequests' =
                   pendingRequests @@ (id :> [type |-> messageType, timeoutMs |-> timeoutMs])
            /\ exchange' = [exchange EXCEPT ![id] = Pending]
            /\ sentFrames' = sentFrames \cup {RequestFrame(id, messageType, messagePayload)}
            /\ UNCHANGED <<settleCount, firstEvent>>
       ELSE /\ exchange' = [exchange EXCEPT ![id] = Rejected(NotConnectedError)]
            /\ settleCount' = [settleCount EXCEPT ![id] = @ + 1]
            /\ firstEvent' =
                   [firstEvent EXCEPT ![id] = Event("notconnected", Rejected(NotConnectedError))]
            /\ UNCHANGED <<pendingRequests, sentFrames>>

\* The outcome a response frame gives its exchange: the payload when its status
\* indicates success, the frame's reported error otherwise.
ResponseOutcome(frame) ==
    IF frame.payload.status = "success"
    THEN Resolved(frame.payload)
    ELSE Rejected(FieldValue(frame.payload.error))

\* The table after a matching response has been handled.
AfterMatchMutant(table, id) == table
AfterMatch(table, id) == Without(table, id)

\* What an unmatched (stale) response does to the exchanges: nothing.
StaleEffectMutant(ex, frame) ==
    [i \in DOMAIN ex |->
        IF i = frame.responseToRequestId /\ ex[i].state \in {"resolved", "rejected"}
        THEN ResponseOutcome(frame) ELSE ex[i]]
StaleEffect(ex, frame) == ex

\* Inbound handler of the correlator.
handleMessage(frame) ==
    LET id == frame.responseToRequestId IN
    /\ connState = "connected"
    /\ lastInbound' = id
    /\ inboundSeq' = 1 - inboundSeq
    /\ IF id \in DOMAIN pendingRequests
       THEN /\ timers' = timers \ {id}
            /\ exchange' = Settle(exchange, id, ResponseOutcome(frame))
            /\ settleCount' = [settleCount EXCEPT ![id] = @ + 1]
            /\ pendingRequests' = AfterMatch(pendingRequests, id)
            /\ firstEvent' = Record(firstEvent, id, Event("response", ResponseOutcome(frame)))
       ELSE /\ exchange' = StaleEffect(exchange, frame)
            /\ firstEvent' =
                   IF id \in RequestIds
                   THEN Record(firstEvent, id, Event("response", ResponseOutcome(frame)))
                   ELSE firstEvent
            /\ UNCHANGED <<timers, settleCount, pendingRequests>>
    /\ UNCHANGED <<connState, nextRequestId, calls, sentFrames>>
    /\ UNCHANGED <<extVars, hostVars>>

\* Timer expiry.
onTimeout(id) ==
    /\ id \in timers
    /\ timers' = timers \ {id}
    /\ firstEvent' = Record(firstEvent, id, Event("timeout", Rejected(TimeoutError)))
    /\ IF id \in DOMAIN pendingRequests
       THEN /\ exchange' =
                   Settle(exchange, id, Rejected(TimeoutError))
            /\ settleCount' = [settleCount EXCEPT ![id] = @ + 1]
            /\ pendingRequests' = Without(pendingRequests, id)
       ELSE UNCHANGED <<exchange, settleCount, pendingRequests>>
    /\ UNCHANGED <<connState, nextRequestId, calls, sentFrames, lastInbound, inboundSeq>>
    /\ UNCHANGED <<extVars, hostVars>>

\* The table the disconnect path leaves behind.
DrainedTableMutant(table) == table
DrainedTable(table) == <<>>

\* Transport Adapter disconnect notification: fail every pending exchange with
\* a channel-closed error, clear the table, then report closed.
onDisconnect ==
    /\ connState = "connected"
    /\ exchange' = [id \in RequestIds |->
                       IF id \in DOMAIN pendingRequests
                       THEN Settle(exchange, id, Rejected(ChannelClosedError))[id]
                       ELSE exchange[id]]
    /\ settleCount' = [id \in RequestIds |->
                          IF id \in DOMAIN pendingRequests
                          THEN settleCount[id] + 1 ELSE settleCount[id]]
    /\ firstEvent' = [id \in RequestIds |->
                         Record(firstEvent, id, Event("disconnect", Rejected(ChannelClosedError)))[id]]
    /\ pendingRequests' = DrainedTable(pendingRequests)
    /\ connState' = "disconnected"
    /\ UNCHANGED <<timers, nextRequestId, calls, sentFrames, lastInbound, inboundSeq>>
    /\ UNCHANGED <<extVars, hostVars>>

\* Transport Adapter open(): forms a new channel; no exchange is revived.
open ==
    /\ connState = "disconnected"
    /\ connState' = "connected"
    /\ UNCHANGED <<pendingRequests, timers, nextRequestId, exchange, calls, sentFrames,
                   lastInbound, inboundSeq, settleCount, firstEvent>>
    /\ UNCHANGED <<extVars, hostVars>>

\* ---------------------------------------------- register-tools.ts handlers
TextContent(text) == <<[type |-> "text", text |-> text]>>

Returned(result) == [pc |-> "returned", result |-> result]
Raised(e) == [pc |-> "raised", result |-> [NoResult EXCEPT !.thrown = e]]

\* The catch branch of handleToolCall.
CatchBranchMutant(error) ==
    IF HasProperties(error)
    THEN Returned([NoResult EXCEPT !.content = TextContent(ErrorText(MessageOf(error))),
                                   !.isError = FALSE])
    ELSE Raised(TypeErrorValue)
CatchBranch(error) ==
    IF HasProperties(error)
    THEN Returned([NoResult EXCEPT !.content = TextContent(ErrorText(MessageOf(error))),
                                   !.isError = TRUE])
    ELSE Raised(TypeErrorValue)

\* handleToolCall from the point where the awaited exchange has settled.
handleToolCall(ex) ==
    IF ex.state = "resolved"
    THEN Returned([NoResult EXCEPT !.content = TextContent(JSONstringify(ex.payload)),
                                   !.isError = FALSE])
    ELSE CatchBranch(ex.error)

\* The ListTools handler from the point where the awaited exchange has settled.
ListToolsHandlerMutant(ex) ==
    IF ex.state = "resolved"
    THEN Returned([NoResult EXCEPT !.tools = ex.payload.data])
    ELSE Returned([NoResult EXCEPT !.tools = Undefined])
ListToolsHandler(ex) ==
    IF ex.state = "resolved"
    THEN Returned([NoResult EXCEPT !.tools = ex.payload.data])
    ELSE Raised(ex.error)

\* The protocol server calls callTool(name, args).
CallTool(name, args) ==
    /\ nextRequestId <= MaxReq
    /\ nextRequestId' = nextRequestId + 1
    /\ calls' = [calls EXCEPT ![nextRequestId] =
                    [kind |-> "callTool", pc |-> "await", result |-> NoResult]]
    /\ sendRequestToExtensionAndWait(nextRequestId, [name |-> name, args |-> args],
                                      "call_tool", CALL_TOOL_TIMEOUT_MS)
    /\ UNCHANGED <<connState, lastInbound, inboundSeq>>
    /\ UNCHANGED <<extVars, hostVars>>

\* The protocol server calls listTools().
ListTools ==
    /\ nextRequestId <= MaxReq
    /\ nextRequestId' = nextRequestId + 1
    /\ calls' = [calls EXCEPT ![nextRequestId] =
                    [kind |-> "listTools", pc |-> "await", result |-> NoResult]]
    /\ sendRequestToExtensionAndWait(nextRequestId, [name |-> Undefined, args |-> Undefined],
                                      "list_tools", LIST_TOOLS_TIMEOUT_MS)
    /\ UNCHANGED <<connState, lastInbound, inboundSeq>>
    /\ UNCHANGED <<extVars, hostVars>>

\* The awaiting handler resumes once its exchange has settled.
Resume(id) ==
    /\ calls[id].pc = "await"
    /\ exchange[id].state \in {"resolved", "rejected"}
    /\ LET r == IF calls[id].kind = "callTool"
                THEN handleToolCall(exchange[id])
                ELSE ListToolsHandler(exchange[id])
       IN calls' = [calls EXCEPT ![id] = [kind |-> calls[id].kind, pc |-> r.pc, result |-> r.result]]
    /\ UNCHANGED <<connState, pendingRequests, timers, nextRequestId, exchange, sentFrames,
                   lastInbound, inboundSeq, settleCount, firstEvent>>
    /\ UNCHANGED <<extVars, hostVars>>

ServerNext ==
    \/ \E name \in ToolNames, args \in ToolArgs : CallTool(name, args)
    \/ ListTools
    \/ \E frame \in InboundFrames : handleMessage(frame)
    \/ \E id \in RequestIds : onTimeout(id)
    \/ onDisconnect
    \/ open
    \/ \E id \in RequestIds : Resume(id)

\* ====================================================================
\* The extension side: entrypoints/background/native-host.ts
\* ====================================================================
NATIVE_HOST == [NAME |-> "com.chromemcp.nativehost", DEFAULT_PORT |-> 9222]
Ports == {NATIVE_HOST.DEFAULT_PORT, 9333}
NoPort == 0          \* an absent (undefined) port number

PortIds == 1..MaxPorts
RequestIndex == 1..MaxRequests

Status(isRunning, port) == [isRunning |-> isRunning, port |-> port]
\* the status the module starts with, and the default of loadServerStatus
DefaultStatus == Status(FALSE, NoPort)

NoStored == [present |-> FALSE, status |-> DefaultStatus]
Stored(st) == [present |-> TRUE, status |-> st]

\* frames the extension posts
StartFrame(port) ==
    [type |-> "start", responseToRequestId |-> 0, payload |-> NoPayload, port |-> port]
Response(requestId, payload) ==
    [type |-> "response", responseToRequestId |-> requestId, payload |-> payload,
     port |-> NoPort]

\* what the tool collaborator may do with a call: return data, or raise
ToolOutcomes ==
    {[ok |-> TRUE, data |-> d, error |-> NoValue] : d \in ToolData}
        \cup {[ok |-> FALSE, data |-> Undefined, error |-> e] :
                 e \in {ErrorObject(m) : m \in ToolErrors} \cup {UndefinedValue}}
NoOutcome == [ok |-> TRUE, data |-> Undefined, error |-> NoValue]

\* error instanceof Error ? error.message : String(error)
ErrorString(e) == IF e.t \in {"Error", "string"} THEN e.v ELSE "undefined"

NoRequest == [type |-> "none", port |-> 0, pc |-> "none", outcome |-> NoOutcome]

NoReply == [kind |-> "none", success |-> FALSE, connected |-> FALSE,
            serverStatus |-> DefaultStatus, port |-> NoPort, error |-> Undefined]
NoBroadcast == [sent |-> FALSE, status |-> DefaultStatus]
Unannounced == [known |-> FALSE, status |-> DefaultStatus]

StoredAtStart == {NoStored, Stored(Status(TRUE, NATIVE_HOST.DEFAULT_PORT))}

\* After module load and initNativeHostListener(): the initial
\* loadServerStatus() has issued its storage read.
ExtInit ==
    /\ nativePort = 0
    /\ portCount = 0
    /\ outbox = [p \in PortIds |-> <<>>]
    /\ currentServerStatus = DefaultStatus
    /\ storage \in StoredAtStart
    /\ storageQueue = <<[op |-> "get", who |-> "init", status |-> DefaultStatus]>>
    /\ requests = [i \in RequestIndex |-> NoRequest]
    /\ requestCount = 0
    /\ reply = NoReply
    /\ logged = "none"
    /\ broadcast = NoBroadcast
    /\ notified = Unannounced

statusVars == <<currentServerStatus, storage, storageQueue, notified>>
requestVars == <<requests, requestCount>>

\* nativePort?.postMessage(frame)
PostMessage(ob, frame) ==
    IF nativePort = 0 THEN ob ELSE [ob EXCEPT ![nativePort] = Append(@, frame)]

\* connectNativeHost(port); connectNative either yields a port or throws, and a
\* throw is caught and logged.
connectNativeHostMutant(port, ok) ==
    IF ~ok
    THEN /\ logged' = "NATIVE_CONNECTION_FAILED"
         /\ UNCHANGED <<nativePort, portCount, outbox>>
    ELSE /\ portCount < MaxPorts
         /\ portCount' = portCount + 1
         /\ nativePort' = portCount + 1
         /\ outbox' = [outbox EXCEPT ![portCount + 1] = Append(@, StartFrame(port))]
         /\ logged' = "none"
connectNativeHost(port, ok) ==
    IF nativePort # 0
    THEN /\ logged' = "none"
         /\ UNCHANGED <<nativePort, portCount, outbox>>
    ELSE IF ~ok
    THEN /\ logged' = "NATIVE_CONNECTION_FAILED"
         /\ UNCHANGED <<nativePort, portCount, outbox>>
    ELSE /\ portCount < MaxPorts
         /\ portCount' = portCount + 1
         /\ nativePort' = portCount + 1
         /\ outbox' = [outbox EXCEPT ![portCount + 1] = Append(@, StartFrame(port))]
         /\ logged' = "none"

\* chrome.runtime.onStartup
onStartup(ok) ==
    /\ connectNativeHost(NATIVE_HOST.DEFAULT_PORT, ok)
    /\ reply' = NoReply
    /\ broadcast' = NoBroadcast
    /\ UNCHANGED <<statusVars, requestVars, serverVars, hostVars>>

\* runtime message CONNECT_NATIVE, with message.port or without
ConnectNative(port, ok) ==
    /\ connectNativeHost(port, ok)
    /\ reply' = [NoReply EXCEPT !.kind = "CONNECT_NATIVE", !.success = TRUE, !.port = port]
    /\ broadcast' = NoBroadcast
    /\ UNCHANGED <<statusVars, requestVars, serverVars, hostVars>>

\* runtime message PING_NATIVE
PingNative ==
    /\ reply' = [NoReply EXCEPT !.kind = "PING_NATIVE", !.connected = (nativePort # 0)]
    /\ logged' = "none"
    /\ broadcast' = NoBroadcast
    /\ UNCHANGED <<nativePort, portCount, outbox, statusVars, requestVars, serverVars, hostVars>>

\* runtime message DISCONNECT_NATIVE
DisconnectNative ==
    /\ IF nativePort # 0
       THEN /\ nativePort' = 0
            /\ reply' = [NoReply EXCEPT !.kind = "DISCONNECT_NATIVE", !.success = TRUE]
       ELSE /\ UNCHANGED nativePort
            /\ reply' = [NoReply EXCEPT !.kind = "DISCONNECT_NATIVE", !.success = FALSE,
                                        !.error = "No active connection"]
    /\ logged' = "none"
    /\ broadcast' = NoBroadcast
    /\ UNCHANGED <<portCount, outbox, statusVars, requestVars, serverVars, hostVars>>

\* runtime message GET_SERVER_STATUS
GetServerStatus ==
    /\ reply' = [NoReply EXCEPT !.kind = "GET_SERVER_STATUS", !.success = TRUE,
                                !.serverStatus = currentServerStatus,
                                !.connected = (nativePort # 0)]
    /\ logged' = "none"
    /\ broadcast' = NoBroadcast
    /\ UNCHANGED <<nativePort, portCount, outbox, statusVars, requestVars, serverVars, hostVars>>

LoadOp(who) == [op |-> "get", who |-> who, status |-> DefaultStatus]
SaveOp(status) == [op |-> "set", who |-> "frame", status |-> status]

\* runtime message REFRESH_SERVER_STATUS: loadServerStatus() is issued; the
\* reply follows when the read completes
RefreshServerStatus ==
    /\ Len(storageQueue) < MaxOps
    /\ storageQueue' = Append(storageQueue, LoadOp("refresh"))
    /\ reply' = NoReply
    /\ logged' = "none"
    /\ broadcast' = NoBroadcast
    /\ UNCHANGED <<nativePort, portCount, outbox, currentServerStatus, storage, notified,
                   requestVars, serverVars, hostVars>>

\* nativePort.onDisconnect: the native host closed the channel
onPortDisconnect ==
    /\ nativePort # 0
    /\ nativePort' = 0
    /\ reply' = NoReply
    /\ logged' = "NATIVE_DISCONNECTED"
    /\ broadcast' = NoBroadcast
    /\ UNCHANGED <<portCount, outbox, statusVars, requestVars, serverVars, hostVars>>

\* ------------------------------------------------ nativePort.onMessage
RequestTypes == {"process_data", "call_tool", "list_tools"}
OtherTypes == {"error_from_native_host", "bogus"}

\* The inbound frames: a type, a requestId or none, and the payload (the port
\* of server_started, the arguments of a request).
Frame(type, hasId, port) == [type |-> type, hasId |-> hasId, port |-> port]
RequestFrames == {Frame(t, h, NoPort) : t \in RequestTypes \cup OtherTypes, h \in BOOLEAN}
StatusFrames == {Frame("server_started", FALSE, q) : q \in Ports}
                    \cup {Frame("server_stopped", FALSE, NoPort)}

\* the requestId given to the next frame that carries one
NextRequest == requestCount + 1

Arrived(type, pc) == [type |-> type, port |-> nativePort, pc |-> pc, outcome |-> NoOutcome]

\* PROCESS_DATA with a requestId: echo the payload
ProcessData(message) ==
    /\ requestCount < MaxRequests
    /\ requestCount' = NextRequest
    /\ requests' = [requests EXCEPT ![NextRequest] = Arrived(message.type, "done")]
    /\ outbox' = PostMessage(outbox, Response(NextRequest, SuccessPayload("payload")))
    /\ logged' = "none"
    /\ UNCHANGED <<nativePort, portCount, statusVars>>

\* CALL_TOOL with a requestId: up to the await of handleCallTool
CallToolStart(message) ==
    /\ requestCount < MaxRequests
    /\ requestCount' = NextRequest
    /\ requests' = [requests EXCEPT ![NextRequest] = Arrived(message.type, "running")]
    /\ logged' = "none"
    /\ UNCHANGED <<nativePort, portCount, outbox, statusVars>>

\* The status each notification records.
StartedStatus(port) == Status(TRUE, port)
StoppedStatusMutant(current) == Status(FALSE, NoPort)
StoppedStatus(current) == Status(FALSE, current.port)

\* SERVER_STARTED: up to the await of saveServerStatus
ServerStarted(message) ==
    /\ Len(storageQueue) < MaxOps
    /\ currentServerStatus' = StartedStatus(message.port)
    /\ storageQueue' = Append(storageQueue, SaveOp(StartedStatus(message.port)))
    /\ notified' = [known |-> TRUE, status |-> Status(TRUE, message.port)]
    /\ logged' = "none"
    /\ UNCHANGED <<nativePort, portCount, outbox, storage, requestVars>>

\* SERVER_STOPPED: up to the await of saveServerStatus
ServerStopped(message) ==
    /\ Len(storageQueue) < MaxOps
    /\ currentServerStatus' = StoppedStatus(currentServerStatus)
    /\ storageQueue' = Append(storageQueue, SaveOp(StoppedStatus(currentServerStatus)))
    /\ notified' = IF notified.known
                   THEN [known |-> TRUE, status |-> Status(FALSE, notified.status.port)]
                   ELSE notified
    /\ logged' = "none"
    /\ UNCHANGED <<nativePort, portCount, outbox, storage, requestVars>>

\* ERROR_FROM_NATIVE_HOST: console.error only
ErrorFromNativeHost(message) ==
    /\ logged' = "ERROR_FROM_NATIVE_HOST"
    /\ UNCHANGED <<nativePort, portCount, outbox, statusVars, requestVars>>

\* the final else: console.warn only
UnknownMessage(message) ==
    /\ logged' = "UNKNOWN_MESSAGE_TYPE"
    /\ IF message.hasId
       THEN /\ requestCount < MaxRequests
            /\ requestCount' = NextRequest
            /\ requests' = [requests EXCEPT ![NextRequest] = Arrived(message.type, "done")]
       ELSE UNCHANGED requestVars
    /\ UNCHANGED <<nativePort, portCount, outbox, statusVars>>

\* The branch of the listener's if / else-if chain a frame takes.
BranchMutant(message) ==
    IF message.hasId THEN "PROCESS_DATA"
    ELSE IF message.type = "error_from_native_host" THEN "ERROR_FROM_NATIVE_HOST"
    ELSE "unknown"
Branch(message) ==
    IF message.type = "process_data" /\ message.hasId THEN "PROCESS_DATA"
    ELSE IF message.type = "call_tool" /\ message.hasId THEN "CALL_TOOL"
    ELSE IF message.type = "server_started" THEN "SERVER_STARTED"
    ELSE IF message.type = "server_stopped" THEN "SERVER_STOPPED"
    ELSE IF message.type = "error_from_native_host" THEN "ERROR_FROM_NATIVE_HOST"
    ELSE "unknown"

\* the listener, up to its first await or its end
onMessage(message) ==
    /\ nativePort # 0
    /\ CASE Branch(message) = "PROCESS_DATA" -> ProcessData(message)
         [] Branch(message) = "CALL_TOOL" -> CallToolStart(message)
         [] Branch(message) = "SERVER_STARTED" -> ServerStarted(message)
         [] Branch(message) = "SERVER_STOPPED" -> ServerStopped(message)
         [] Branch(message) = "ERROR_FROM_NATIVE_HOST" -> ErrorFromNativeHost(message)
         [] OTHER -> UnknownMessage(message)
    /\ reply' = NoReply
    /\ broadcast' = NoBroadcast
    /\ UNCHANGED <<serverVars, hostVars>>

\* The catch branch of CALL_TOOL: the frames posted for a tool that raised.
CallToolCatchMutant(ob, requestId, error) == ob
CallToolCatch(ob, requestId, error) ==
    PostMessage(ob, Response(requestId, ErrorPayload(ErrorString(error))))

\* CALL_TOOL after the await: handleCallTool has returned or raised
CallToolDone(i, outcome) ==
    /\ requests[i].pc = "running"
    /\ requests' = [requests EXCEPT ![i].pc = "done", ![i].outcome = outcome]
    /\ IF outcome.ok
       THEN /\ outbox' = PostMessage(outbox, Response(i, SuccessPayload(outcome.data)))
            /\ logged' = "none"
       ELSE /\ outbox' = CallToolCatch(outbox, i, outcome.error)
            /\ logged' = "TOOL_CALL_FAILED"
    /\ reply' = NoReply
    /\ broadcast' = NoBroadcast
    /\ UNCHANGED <<nativePort, portCount, statusVars, requestCount, serverVars, hostVars>>

\* loadServerStatus(): the stored status, or the default when there is none or
\* the read fails
loadServerStatus(ok) ==
    IF ok /\ storage.present THEN storage.status ELSE DefaultStatus

\* broadcastServerStatusChange(status)
broadcastServerStatusChange(status) == [sent |-> TRUE, status |-> status]

\* The oldest storage operation completes and the code awaiting it resumes: a
\* save is followed by the broadcast of the status current at that moment, a
\* load by the assignment of the loaded status (and the reply of a refresh).
StorageDone(ok) ==
    /\ storageQueue # <<>>
    /\ storageQueue' = Tail(storageQueue)
    /\ LET o == Head(storageQueue) IN
       IF o.op = "set"
       THEN /\ storage' = IF ok THEN Stored(o.status) ELSE storage
            /\ logged' = IF ok THEN "none" ELSE "SERVER_STATUS_SAVE_FAILED"
            /\ broadcast' = broadcastServerStatusChange(currentServerStatus)
            /\ reply' = NoReply
            /\ UNCHANGED currentServerStatus
       ELSE /\ currentServerStatus' = loadServerStatus(ok)
            /\ logged' = IF ok THEN "none" ELSE "SERVER_STATUS_LOAD_FAILED"
            /\ reply' = IF o.who = "refresh"
                        THEN [NoReply EXCEPT !.kind = "REFRESH_SERVER_STATUS",
                                             !.success = TRUE,
                                             !.serverStatus = loadServerStatus(ok),
                                             !.connected = (nativePort # 0)]
                        ELSE NoReply
            /\ broadcast' = NoBroadcast
            /\ UNCHANGED storage
    /\ UNCHANGED <<nativePort, portCount, outbox, requestVars, notified, serverVars, hostVars>>

\* request handling; the channel is opened at startup or by a CONNECT_NATIVE
\* that names no port
DispatchNext ==
    \/ \E ok \in BOOLEAN : onStartup(ok)
    \/ \E ok \in BOOLEAN : ConnectNative(NATIVE_HOST.DEFAULT_PORT, ok)
    \/ PingNative
    \/ DisconnectNative
    \/ onPortDisconnect
    \/ \E message \in RequestFrames : onMessage(message)
    \/ \E i \in RequestIndex, outcome \in ToolOutcomes : CallToolDone(i, outcome)

\* the connection: the runtime messages, the channel's closure, and frames
\* answered on the channel
ConnectionNext ==
    \/ \E ok \in BOOLEAN : onStartup(ok)
    \/ \E port \in Ports, ok \in BOOLEAN : ConnectNative(port, ok)
    \/ PingNative
    \/ DisconnectNative
    \/ GetServerStatus
    \/ onPortDisconnect
    \/ \E message \in {Frame("process_data", TRUE, NoPort)} : onMessage(message)

\* the server status
StatusNext ==
    \/ \E ok \in BOOLEAN : onStartup(ok)
    \/ onPortDisconnect
    \/ GetServerStatus
    \/ RefreshServerStatus
    \/ \E message \in StatusFrames : onMessage(message)
    \/ \E ok \in BOOLEAN : StorageDone(ok)

\* ====================================================================
\* The host process: the entry script of the native server
\* ====================================================================
\* what a throw or a rejection may carry: an Error, a string, undefined
Thrown == {ErrorObject("boom"), StringValue("oops"), UndefinedValue}

\* the exit code Node gives a process whose 'uncaughtException' listener throws
HandlerFailureExitCode == 7

LogLine(text, detail) == [text |-> text, detail |-> detail]

\* log(message): appendFileSync inside try/catch, a failed write is swallowed
log(file, message, ok) == IF ok THEN Append(file, message) ELSE file

\* error instanceof Error ? error.message : String(error)
ReasonText(e) == IF e.t \in {"Error", "string"} THEN e.v ELSE "undefined"

\* the 'exit' listener's line
ExitLine(code) == LogLine("Process exiting with code", ToString(code))

\* How a listener ends: the process goes on, process.exit(code) is called, or
\* the listener itself throws.
Continue == [exits |-> FALSE, code |-> 0, raised |-> FALSE]
Exit(code) == [exits |-> TRUE, code |-> code, raised |-> FALSE]
Throws == [exits |-> TRUE, code |-> HandlerFailureExitCode, raised |-> TRUE]

HostInit ==
    /\ procState = "starting"
    /\ exitCode = 0
    /\ logFile = <<>>
    /\ logWrites = <<>>
    /\ rejections = 0

\* the entry script has run to its end without a failure
HostStarted ==
    /\ procState = "running"
    /\ exitCode = 0
    /\ logFile = <<LogLine("Starting native server...", Undefined),
                   LogLine("Native server started successfully", Undefined)>>
    /\ logWrites = <<>>
    /\ rejections = 0

\* The start-up try/catch; thrown is NoValue when start() returns. The 'exit'
\* listener is not registered yet when the catch calls process.exit(1).
Startup(thrown, ok1, ok2) ==
    /\ procState = "starting"
    /\ LET first == LogLine("Starting native server...", Undefined)
           second == IF thrown = NoValue
                     THEN LogLine("Native server started successfully", Undefined)
                     ELSE LogLine("Error starting server", ReasonText(thrown))
       IN /\ logFile' = log(log(logFile, first, ok1), second, ok2)
          /\ logWrites' = <<first, second>>
    /\ IF thrown = NoValue
       THEN procState' = "running" /\ UNCHANGED exitCode
       ELSE procState' = "exited" /\ exitCode' = 1
    /\ UNCHANGED <<rejections, serverVars, extVars>>

\* A listener has run: the line it logs and how it ends. A listener that
\* throws while building its line logs nothing, and Node ends the process
\* without emitting 'exit'; process.exit(code) runs the 'exit' listener, which
\* logs a line of its own.
Listened(line, end, ok1, ok2) ==
    IF end.raised
    THEN /\ logWrites' = <<>>
         /\ procState' = "exited"
         /\ exitCode' = end.code
         /\ UNCHANGED logFile
    ELSE IF end.exits
    THEN /\ logFile' = log(log(logFile, line, ok1), ExitLine(end.code), ok2)
         /\ logWrites' = <<line, ExitLine(end.code)>>
         /\ procState' = "exited"
         /\ exitCode' = end.code
    ELSE /\ logFile' = log(logFile, line, ok1)
         /\ logWrites' = <<line>>
         /\ UNCHANGED <<procState, exitCode>>

Signals == {"SIGINT", "SIGTERM"}

\* process.on('SIGINT' | 'SIGTERM')
onSignal(signal) == Exit(0)
Signal(signal, ok1, ok2) ==
    /\ procState = "running"
    /\ Listened(LogLine("Received signal, shutting down gracefully", signal),
                onSignal(signal), ok1, ok2)
    /\ UNCHANGED <<rejections, serverVars, extVars>>

\* process.on('uncaughtException') and process.on('error'): both read
\* error.message before they log
onUncaughtException(error) == IF HasProperties(error) THEN Exit(1) ELSE Throws
UncaughtException(error, ok1, ok2) ==
    /\ procState = "running"
    /\ Listened(LogLine("Uncaught exception", MessageOf(error)),
                onUncaughtException(error), ok1, ok2)
    /\ UNCHANGED <<rejections, serverVars, extVars>>
ProcessError(error, ok1, ok2) ==
    /\ procState = "running"
    /\ Listened(LogLine("Process error", MessageOf(error)),
                onUncaughtException(error), ok1, ok2)
    /\ UNCHANGED <<rejections, serverVars, extVars>>

\* process.on('unhandledRejection')
onUnhandledRejectionMutant(reason) == Exit(1)
onUnhandledRejection(reason) == Continue
UnhandledRejection(reason, ok) ==
    /\ procState = "running"
    /\ rejections < MaxRejections
    /\ rejections' = rejections + 1
    /\ Listened(LogLine("Unhandled rejection", ReasonText(reason)),
                onUnhandledRejection(reason), ok, ok)
    /\ UNCHANGED <<serverVars, extVars>>

\* the host process
HostNext ==
    \/ \E thrown \in Thrown \cup {NoValue}, ok1, ok2 \in BOOLEAN : Startup(thrown, ok1, ok2)
    \/ \E signal \in Signals, ok1, ok2 \in BOOLEAN : Signal(signal, ok1, ok2)
    \/ \E error \in Thrown, ok1, ok2 \in BOOLEAN : UncaughtException(error, ok1, ok2)
    \/ \E error \in Thrown, ok1, ok2 \in BOOLEAN : ProcessError(error, ok1, ok2)
    \/ \E reason \in Thrown, ok \in BOOLEAN : UnhandledRejection(reason, ok)

\* ------------------------------------------------------- specifications
\* both sides after start-up; InitFresh: with nothing in storage yet
Init == ServerInit /\ ExtInit /\ HostStarted
InitFresh == ServerInit /\ ExtInit /\ HostStarted /\ storage = NoStored
\* the host process launched, its entry script about to run
InitHost == ServerInit /\ ExtInit /\ HostInit /\ storage = NoStored

\* the native-server side
SpecServer == InitFresh /\ [][ServerNext]_vars

\* the extension's dispatcher: request frames, tool calls, the connection
SpecDispatch == InitFresh /\ [][DispatchNext]_vars

\* the extension's connection to the native host
SpecConnection == InitFresh /\ [][ConnectionNext]_vars

\* the host process of the native server
SpecHost == InitHost /\ [][HostNext]_vars

\* the extension's server status: start/stop frames, storage, status queries
SpecStatus == Init /\ [][StatusNext]_vars

\* ------------------------------------------------------------ properties

\* C1: callTool never raises: whatever way the exchange ended, the handler
\* completes by returning a result with a content list and an isError flag.
C1_CallToolNeverRaises ==
    \A id \in RequestIds :
        (calls[id].kind = "callTool" /\ calls[id].pc # "await")
            => (calls[id].pc = "returned" /\ Len(calls[id].result.content) = 1)

\* C2: a returned callTool result has isError = FALSE exactly when the exchange
\* ended with a success reply; an error reply carrying the extension's error
\* text, a timeout, a disconnect or a closed channel give isError = TRUE.
SuccessReply(id) ==
    firstEvent[id].kind = "response" /\ firstEvent[id].outcome.state = "resolved"
FailedExchange(id) ==
    \/ firstEvent[id].kind \in {"timeout", "disconnect", "notconnected"}
    \/ /\ firstEvent[id].kind = "response"
       /\ firstEvent[id].outcome.state = "rejected"
       /\ firstEvent[id].outcome.error.t = "string"
C2_IsErrorIffNotSuccess ==
    \A id \in RequestIds :
        calls[id].kind = "callTool" =>
            /\ calls[id].pc = "returned" => (calls[id].result.isError = FALSE <=> SuccessReply(id))
            /\ (calls[id].pc # "await" /\ FailedExchange(id))
                   => (calls[id].pc = "returned" /\ calls[id].result.isError = TRUE)
C2_Witness ==
    \E i, j \in RequestIds :
        /\ calls[i].kind = "callTool" /\ calls[i].pc = "returned" /\ SuccessReply(i)
        /\ calls[j].kind = "callTool" /\ calls[j].pc = "returned"
        /\ firstEvent[j].kind = "response" /\ firstEvent[j].outcome.state = "rejected"

\* C3: every issued identifier is settled at most once, and once any of
\* response / timeout / disconnect has occurred for it, exactly once and with
\* the outcome of the first of them; later events change nothing.
C3_ResolvesExactlyOnce ==
    \A id \in RequestIds :
        /\ settleCount[id] <= 1
        /\ firstEvent[id].kind # "none"
               => (settleCount[id] = 1 /\ exchange[id] = firstEvent[id].outcome)
\* a response settled one exchange and a disconnect came later; the disconnect
\* settled another and its timer fired later
C3_Witness ==
    \E i, j \in RequestIds :
        /\ firstEvent[i].kind = "response" /\ connState = "disconnected"
        /\ firstEvent[j].kind = "disconnect" /\ j \notin timers

\* C4: a disconnect fails every pending exchange with a channel-closed error
\* and empties the table in the step that reports the adapter closed; while the
\* adapter is closed nothing is pending.
C4_DisconnectDrains ==
    [][/\ (connState = "connected" /\ connState' = "disconnected")
           => \A id \in DOMAIN pendingRequests : exchange'[id] = Rejected(ChannelClosedError)
       /\ connState' = "disconnected"
           => /\ DOMAIN pendingRequests' = {}
              /\ \A id \in RequestIds : exchange'[id].state # "pending"]_serverVars
C4_Witness ==
    /\ connState = "disconnected"
    /\ Cardinality({id \in RequestIds : firstEvent[id].kind = "disconnect"}) >= 2

\* C5: a response frame that matches no pending identifier changes neither the
\* table nor any exchange, timer, handler or the connection state.
C5_StaleResponseInert ==
    [][(inboundSeq' # inboundSeq /\ lastInbound' \notin DOMAIN pendingRequests)
           => UNCHANGED <<connState, pendingRequests, timers, nextRequestId, exchange,
                          calls, sentFrames, settleCount>>]_serverVars
\* stale frames of each kind have been delivered: for an identifier already
\* answered or timed out, and for one never issued
C5_Witness ==
    /\ lastInbound = MaxReq + 1
    /\ \E id \in RequestIds : exchange[id].state \in {"resolved", "rejected"}
    /\ \E id \in RequestIds : exchange[id].state = "pending"

\* C9: listTools issues a list_tools request with a 30000 ms timeout, returns
\* the catalog of a success reply, and lets any failure of the exchange
\* propagate to its caller.
C9_ListTools ==
    \A id \in RequestIds :
        calls[id].kind = "listTools" =>
            /\ id \in DOMAIN pendingRequests
                   => pendingRequests[id] = [type |-> "list_tools", timeoutMs |-> 30000]
            /\ firstEvent[id].kind # "notconnected"
                   => RequestFrame(id, "list_tools", [name |-> Undefined, args |-> Undefined])
                          \in sentFrames
            /\ calls[id].pc # "await" =>
                   IF exchange[id].state = "resolved"
                   THEN /\ calls[id].pc = "returned"
                        /\ calls[id].result.tools = exchange[id].payload.data
                   ELSE /\ calls[id].pc = "raised"
                        /\ calls[id].result.thrown = exchange[id].error
C9_Witness ==
    \E i, j \in RequestIds :
        /\ calls[i].kind = "listTools" /\ calls[i].pc = "returned"
        /\ calls[i].result.tools \in ToolData
        /\ calls[j].kind = "listTools" /\ calls[j].pc = "raised"
        /\ firstEvent[j].kind \in {"timeout", "disconnect"}

\* the places of the outboxes that hold a response to request i
ResponseSlots(i) ==
    {pk \in PortIds \X (1..(MaxRequests + 1)) :
        /\ pk[2] <= Len(outbox[pk[1]])
        /\ outbox[pk[1]][pk[2]].type = "response"
        /\ outbox[pk[1]][pk[2]].responseToRequestId = i}
Posted(pk) == outbox[pk[1]][pk[2]]

\* C6: once the dispatcher has finished handling a tool-call, tool-list-query
\* or process-data frame that carries a requestId, exactly one response frame
\* with that responseToRequestId has been sent.
C6_ExactlyOneResponse ==
    \A i \in RequestIndex :
        (requests[i].type \in RequestTypes /\ requests[i].pc = "done")
            => Cardinality(ResponseSlots(i)) = 1

\* C7 as claimed: whenever the tool has raised and the handler has finished, a
\* response with status=error and the error message has been sent for that
\* requestId.
C7_ErrorResponseSent ==
    \A i \in RequestIndex :
        (requests[i].type = "call_tool" /\ requests[i].pc = "done" /\ ~requests[i].outcome.ok)
            => \E pk \in ResponseSlots(i) :
                   Posted(pk).payload = ErrorPayload(ErrorString(requests[i].outcome.error))

\* C7 as amended: when the tool raises, the handler finishes without raising
\* and posts the status=error response for that requestId to the port that is
\* current at that moment; when no port is open then, no frame is sent.
C7_ErrorCaughtAndPosted ==
    [][\A i \in RequestIndex :
          (requests[i].pc = "running" /\ requests'[i].pc # "running"
               /\ ~requests'[i].outcome.ok)
              => /\ requests'[i].pc = "done"
                 /\ outbox' =
                        IF nativePort = 0 THEN outbox
                        ELSE [outbox EXCEPT ![nativePort] =
                                 Append(@, Response(i,
                                     ErrorPayload(ErrorString(requests'[i].outcome.error))))]]_vars
\* a tool raised and its error response is in the outbox of the port the
\* request came in on; another raised after the port was closed
C7_Witness ==
    \E i, j \in RequestIndex :
        /\ requests[i].type = "call_tool" /\ requests[i].pc = "done" /\ ~requests[i].outcome.ok
        /\ \E pk \in ResponseSlots(i) :
               /\ pk[1] = requests[i].port
               /\ Posted(pk).payload.status = "error"
               /\ Posted(pk).payload.error = "boom"
        /\ requests[j].type = "call_tool" /\ requests[j].pc = "done" /\ ~requests[j].outcome.ok
        /\ ResponseSlots(j) = {}

\* C8: a handled tool-list-query frame has been answered with a status=success
\* response.
C8_ListQueryAnswered ==
    \A i \in RequestIndex :
        (requests[i].type = "list_tools" /\ requests[i].pc = "done")
            => \E pk \in ResponseSlots(i) : Posted(pk).payload.status = "success"

\* C10: once start/stop frames have announced a status (server-started with
\* port P, possibly followed by server-stopped) and their handling has ended,
\* GET_SERVER_STATUS returns that status: running with port P, or stopped with
\* port P.
C10_StatusQuery ==
    (reply.kind = "GET_SERVER_STATUS" /\ storageQueue = <<>> /\ notified.known)
        => reply.serverStatus = notified.status

\* the statuses whose persistence write is still outstanding
OutstandingWrites ==
    {storageQueue[k].status : k \in {n \in 1..Len(storageQueue) : storageQueue[n].op = "set"}}

\* C11: a broadcast never carries a status whose persistence write is still
\* outstanding; the write of the broadcast status has completed, or its
\* failure has been recorded, before the broadcast.
C11_BroadcastAfterWrite ==
    broadcast.sent => broadcast.status \notin OutstandingWrites

\* the step is the start-up read of the stored status completing
InitialLoadStep ==
    storageQueue # <<>> /\ Head(storageQueue) = LoadOp("init")
        /\ storageQueue' = Tail(storageQueue)

\* C12: once started up, the in-memory server status changes only in a step
\* that handles a server-started or server-stopped frame, and that step issues
\* the persistence write of the new status; no other operation changes it.
C12_OnlyStartStopChange ==
    [][(currentServerStatus' # currentServerStatus /\ ~InitialLoadStep)
          => storageQueue' = Append(storageQueue, SaveOp(currentServerStatus'))]_vars

\* the step handles a server-stopped frame
ServerStoppedStep ==
    \E message \in StatusFrames : message.type = "server_stopped" /\ onMessage(message)

\* C13: handling a server-stopped frame sets isRunning to false and leaves the
\* port equal to the port recorded before the frame, whatever came before.
C13_StopKeepsPort ==
    [][ServerStoppedStep
          => /\ ~currentServerStatus'.isRunning
             /\ currentServerStatus'.port = currentServerStatus.port]_vars
\* a server-stopped frame has just been handled after a server-started frame
\* that recorded port 9333: the status is stopped with port 9333 and its write
\* is the newest outstanding one
C13_Witness ==
    /\ currentServerStatus = Status(FALSE, 9333)
    /\ storageQueue # <<>>
    /\ storageQueue[Len(storageQueue)] = SaveOp(currentServerStatus)

\* the step handles a frame whose type is not in the vocabulary
UnknownFrameStep ==
    \E message \in RequestFrames : message.type = "bogus" /\ onMessage(message)

\* C14: handling a frame of a type outside the vocabulary, with or without a
\* requestId, posts no frame, starts no tool, leaves the server status, the
\* stored status and the connection unchanged, and logs the unknown type.
C14_UnknownFrameIgnored ==
    [][UnknownFrameStep
          => /\ outbox' = outbox
             /\ \A i \in RequestIndex :
                    requests'[i].pc = "running" => requests[i].pc = "running"
             /\ UNCHANGED <<currentServerStatus, storage, storageQueue, nativePort, portCount>>
             /\ logged' = "UNKNOWN_MESSAGE_TYPE"]_vars
\* a frame of unknown type that carried a requestId has just been handled: it
\* was logged and no response to it exists
C14_Witness ==
    /\ requestCount > 0
    /\ requests[requestCount].type = "bogus"
    /\ requests[requestCount].pc = "done"
    /\ logged = "UNKNOWN_MESSAGE_TYPE"
    /\ ResponseSlots(requestCount) = {}

\* the step is the oldest outstanding write failing, and its handler resuming
WriteFailedStep ==
    storageQueue # <<>> /\ Head(storageQueue).op = "set" /\ StorageDone(FALSE)

\* C15: when the write of a status fails, the failure is logged, the in-memory
\* status is the status that was being written, and that status is broadcast.
C15_WriteFailureOnlyLogged ==
    [][WriteFailedStep
          => /\ logged' = "SERVER_STATUS_SAVE_FAILED"
             /\ currentServerStatus' = Head(storageQueue).status
             /\ broadcast' = broadcastServerStatusChange(Head(storageQueue).status)]_vars

\* the step handles CONNECT_NATIVE with no channel open, and opening fails
ConnectFailedStep ==
    nativePort = 0 /\ \E port \in Ports : ConnectNative(port, FALSE)

\* C16: when opening the channel fails, the caller of the connect request is
\* answered with a failure carrying an error, nothing is retried or posted,
\* and no channel is open afterwards.
C16_OpenFailureReported ==
    [][ConnectFailedStep
          => /\ ~reply'.success
             /\ reply'.error # Undefined
             /\ nativePort' = 0
             /\ outbox' = outbox /\ portCount' = portCount]_vars

\* C17: every unhandled rejection delivered to the host process is logged
\* (the write is attempted) and leaves the process running, whether or not
\* the log write succeeds and however many rejections came before.
C17_RejectionNeverExits ==
    [][rejections' # rejections
          => /\ procState' = "running"
             /\ \E reason \in Thrown :
                    logWrites' = <<LogLine("Unhandled rejection", ReasonText(reason))>>]_vars
\* the process is running after MaxRejections rejections, the last of which
\* carried undefined and could not be written to the log
C17_Witness ==
    /\ rejections = MaxRejections
    /\ procState = "running"
    /\ logWrites = <<LogLine("Unhandled rejection", "undefined")>>
    /\ \A k \in 1..Len(logFile) : logFile[k].text # "Unhandled rejection"

\* the step delivers an interrupt or termination signal
SignalStep ==
    \E signal \in Signals, ok1, ok2 \in BOOLEAN : Signal(signal, ok1, ok2)
\* the step is an uncaught synchronous failure, at start-up or later
FailureStep ==
    \E error \in Thrown, ok1, ok2 \in BOOLEAN :
        Startup(error, ok1, ok2) \/ UncaughtException(error, ok1, ok2)

\* C18: a signal ends the host process with code 0, an uncaught synchronous
\* failure (at start-up or later) with a non-zero code, and in each case a log
\* write is attempted before the exit, whether or not the write succeeds.
C18_ExitCodes ==
    [][/\ SignalStep => (procState' = "exited" /\ exitCode' = 0 /\ logWrites' # <<>>)
       /\ FailureStep => (procState' = "exited" /\ exitCode' # 0 /\ logWrites' # <<>>)]_vars

\* C19: every response to a tool-call frame is in the outbox of the port the
\* frame arrived on, never in that of a port opened later.
C19_ResponseOnArrivalPort ==
    \A i \in RequestIndex :
        requests[i].type = "call_tool"
            => \A pk \in ResponseSlots(i) : pk[1] = requests[i].port

\* every port opened so far was sent exactly one start frame, as its first
\* frame, and no frame was posted to a port that was never opened
OneStartFramePerPort ==
    \A p \in PortIds :
        IF p <= portCount
        THEN /\ outbox[p] # <<>>
             /\ \A k \in 1..Len(outbox[p]) : (outbox[p][k].type = "start") <=> (k = 1)
        ELSE outbox[p] = <<>>

====
